---- MODULE Spec2Model ----
(***************************************************************************)
(* The cart store of react-zustand-cart (src/src/store/index.ts) and the   *)
(* helpers and components that read it.                                    *)
(*                                                                         *)
(* JavaScript arrays and objects are mutable and shared by reference, and  *)
(* the store's operations mutate the array returned by get() in place      *)
(* before committing a copy of it.  The model therefore keeps a heap:      *)
(* `objs' maps an object identity to a CartItem {product, quantity},       *)
(* `arrs' maps an array identity to the sequence of object identities it   *)
(* holds, and `cartItems' is the array identity the store's state points   *)
(* to.  A consumer (a component that called useCartStore(state =>          *)
(* state.cartItems)) holds an array identity too.                          *)
(***************************************************************************)
EXTENDS Integers, Sequences, FiniteSets, TLC

\* ---------------------------------------------------------------- bounds
NumProducts      == 2   \* products of the catalogue
MaxQuantity      == 3   \* incrementQuantity is not explored beyond this quantity
MaxPending       == 2   \* commits a subscriber may fall behind before it re-renders

\* ------------------------------------------------------------ data model
ProductIds == 1..NumProducts

\* Product records of the catalogue (id and price; the other fields are
\* never read by the store or the helpers).
products == { [id |-> i, price |-> IF i % 2 = 1 THEN 10 ELSE 5] : i \in ProductIds }

\* CartItem arguments a caller can pass: { product, quantity }.
\* The quantity field is whatever the caller holds: 1 from the product list,
\* a copy of a rendered (possibly stale) entry from the cart page, or 0.
InputQuantities == 0..2
CartItem == [product : products, quantity : InputQuantities]

ObjIds == 1..(2 * NumProducts)   \* identities of CartItem objects on the heap
ArrIds == 1..3                   \* identities of arrays on the heap
NoRef  == 0                      \* a consumer that has not read the store yet

OpNames == {"addItem", "removeItem", "incrementQuantity", "decrementQuantity"}
NoBlob  == << >>                 \* getItem("cart-storage") finds nothing
NoItem  == [product |-> [id |-> 0, price |-> 0], quantity |-> 0]

VARIABLES
    objs,       \* heap: object identity -> [product, quantity]
    arrs,       \* heap: array identity -> sequence of object identities
    cartItems,  \* the store's state: identity of the committed cartItems array
    view,       \* array identity a consumer got from its selector (NoRef: none)
    seen,       \* the content of that array when the consumer read it
    lastOp,     \* name of the last store operation called ("none" at start)
    lastItem,   \* its argument
    before,     \* content of the cart before the last operation
    replaced,   \* whether the last operation called set() with a new array
    prevCall,   \* the call before the last one, when it was an addItem or an
                \* incrementQuantity: its name, the product id of its argument
                \* and the cart before it; NoCall otherwise
    pending,    \* commits the subscribed consumer was notified of and has not
                \* rendered yet
    storage     \* the blob kept under "cart-storage" (NoBlob: none written yet)

vars == << objs, arrs, cartItems, view, seen, lastOp, lastItem, before,
           replaced, prevCall, pending, storage >>

callVars == << lastOp, lastItem, before, replaced, prevCall >>

NoCall == [op |-> "none", id |-> 0, cart |-> << >>]

\* The heap and the store state as one value, as the operations see it.
Heap == [objs |-> objs, arrs |-> arrs, cartItems |-> cartItems]

\* The content of array a: the sequence of CartItem values it holds.
Deref(H, a) == [i \in 1..Len(H.arrs[a]) |-> H.objs[H.arrs[a][i]]]

\* get().cartItems : the committed array.
get(H) == H.cartItems

\* The cart as a value.
Cart(H) == Deref(H, get(H))

\* Identities the allocator hands out: the least one not in use.
FreshObj(H) == CHOOSE o \in ObjIds \ DOMAIN H.objs :
                   \A p \in ObjIds \ DOMAIN H.objs : o <= p
FreshArr(H) == CHOOSE a \in ArrIds \ DOMAIN H.arrs :
                   \A b \in ArrIds \ DOMAIN H.arrs : a <= b

\* Array.prototype.splice(index, 1) on a 0-based index.
splice(s, index) == [i \in 1..(Len(s) - 1) |-> IF i <= index THEN s[i] ELSE s[i + 1]]

\* A plausible slip shared by the three operations that mutate in place:
\* set({ cartItems: items }), the mutated array itself, without the spread.
setSpread_SameArray(H, items) == H

\* [...items] : a new array with the same elements; returns the heap with
\* the copy allocated and committed by set({ cartItems: copy }).
setSpread(H, items) ==
    LET a == FreshArr(H)
    IN  [objs |-> H.objs, arrs |-> H.arrs @@ (a :> H.arrs[items]), cartItems |-> a]

\* The elements of a sequence, as a set.
Range(s) == { s[i] : i \in 1..Len(s) }

\* The elements of s that are not in the set X, in the order of s.
RECURSIVE Without(_, _)
Without(s, X) ==
    IF s = << >> THEN << >>
    ELSE IF Head(s) \in X THEN Without(Tail(s), X)
         ELSE << Head(s) >> \o Without(Tail(s), X)

\* Position of x in the sequence s (x occurs in s).
IndexOf(s, x) == CHOOSE i \in 1..Len(s) : s[i] = x /\ \A j \in 1..(i - 1) : s[j] # x

\* The runtime's view of the heap after a call returns.  Arrays reachable
\* from neither the store nor the consumer are garbage, and so are the
\* objects only they hold.  Identities carry no meaning beyond equality, so
\* the live ones are renumbered: the committed array is 1, the consumer's
\* array is 1 when it is the committed one and 2 otherwise, and objects are
\* numbered in the order the committed array and then the consumer's array
\* hold them.  Returns the heap and the consumer's reference.
Normalize(H, v) ==
    LET storeSeq == H.arrs[H.cartItems]
        viewSeq  == IF v = NoRef THEN << >> ELSE H.arrs[v]
        order    == Without(storeSeq, {}) \o Without(viewSeq, Range(storeSeq))
        name(o)  == IndexOf(order, o)
        rename(s) == [i \in 1..Len(s) |-> name(s[i])]
        v2       == IF v = NoRef THEN NoRef ELSE IF v = H.cartItems THEN 1 ELSE 2
    IN  [objs |-> [n \in 1..Len(order) |-> H.objs[order[n]]],
         arrs |-> IF v2 = 2 THEN (1 :> rename(storeSeq)) @@ (2 :> rename(viewSeq))
                  ELSE (1 :> rename(storeSeq)),
         cartItems |-> 1,
         view |-> v2]

\* ------------------------------------------------------- store operations

\* A plausible slip: the comparison never matches.
findItemIndex_NoMatch(items, item) == -1

\* A plausible slip: the whole argument is compared, quantity included.
findItemIndex_MatchQuantity(items, item) ==
    LET hits == { i \in 1..Len(items) : /\ items[i].product.id = item.product.id
                                        /\ items[i].quantity = item.quantity }
    IN  IF hits = {} THEN -1
        ELSE (CHOOSE i \in hits : \A j \in hits : i <= j) - 1

\* findItemIndex: 0-based index of the first entry with the argument's
\* product id, -1 when there is none.
findItemIndex(items, item) ==
    LET hits == { i \in 1..Len(items) : items[i].product.id = item.product.id }
    IN  IF hits = {} THEN -1
        ELSE (CHOOSE i \in hits : \A j \in hits : i <= j) - 1

\* A plausible slip: the new entry keeps the argument's quantity ({ ...item }).
addItem_KeepQuantity(H, item) ==
    LET items     == get(H)
        itemIndex == findItemIndex(Deref(H, items), item)
        o         == FreshObj(H)
        a         == FreshArr(H)
    IN  IF itemIndex = -1
        THEN [objs |-> H.objs @@ (o :> [product |-> item.product, quantity |-> item.quantity]),
              arrs |-> H.arrs @@ (a :> Append(H.arrs[items], o)),
              cartItems |-> a]
        ELSE H

\* A plausible slip: adding a product already in the cart bumps its quantity.
addItem_Increment(H, item) ==
    LET items     == get(H)
        itemIndex == findItemIndex(Deref(H, items), item)
        o         == FreshObj(H)
        a         == FreshArr(H)
    IN  IF itemIndex = -1
        THEN [objs |-> H.objs @@ (o :> [product |-> item.product, quantity |-> 1]),
              arrs |-> H.arrs @@ (a :> Append(H.arrs[items], o)),
              cartItems |-> a]
        ELSE LET e == H.arrs[items][itemIndex + 1]
             IN  setSpread([H EXCEPT !.objs[e].quantity = @ + 1], items)

\* addItem: set({ cartItems: [...items, { ...item, quantity: 1 }] }) when the
\* product has no entry; nothing otherwise.
addItem(H, item) ==
    LET items     == get(H)
        itemIndex == findItemIndex(Deref(H, items), item)
        o         == FreshObj(H)
        a         == FreshArr(H)
    IN  IF itemIndex = -1
        THEN [objs |-> H.objs @@ (o :> [product |-> item.product, quantity |-> 1]),
              arrs |-> H.arrs @@ (a :> Append(H.arrs[items], o)),
              cartItems |-> a]
        ELSE H

\* A plausible slip: the first entry is spliced instead of the found one.
removeItem_First(H, item) ==
    LET items     == get(H)
        itemIndex == findItemIndex(Deref(H, items), item)
    IN  IF itemIndex > -1
        THEN setSpread([H EXCEPT !.arrs[items] = splice(@, 0)], items)
        ELSE H

\* A plausible slip: the guard is missing, and splice(-1, 1) drops the last entry.
removeItem_NoGuard(H, item) ==
    LET items     == get(H)
        itemIndex == findItemIndex(Deref(H, items), item)
        n         == Len(H.arrs[items])
    IN  IF itemIndex > -1
        THEN setSpread([H EXCEPT !.arrs[items] = splice(@, itemIndex)], items)
        ELSE IF n > 0
             THEN setSpread([H EXCEPT !.arrs[items] = splice(@, n - 1)], items)
             ELSE setSpread(H, items)

\* removeItem: items.splice(itemIndex, 1) on the committed array itself, then
\* set({ cartItems: [...items] }).
removeItem(H, item) ==
    LET items     == get(H)
        itemIndex == findItemIndex(Deref(H, items), item)
    IN  IF itemIndex > -1
        THEN setSpread([H EXCEPT !.arrs[items] = splice(@, itemIndex)], items)
        ELSE H

\* A plausible slip: a cap on the quantity.
incrementQuantity_Capped(H, item) ==
    LET items     == get(H)
        itemIndex == findItemIndex(Deref(H, items), item)
    IN  IF itemIndex > -1
        THEN LET e == H.arrs[items][itemIndex + 1]
             IN  IF H.objs[e].quantity >= 2
                 THEN setSpread(H, items)
                 ELSE setSpread([H EXCEPT !.objs[e].quantity = @ + 1], items)
        ELSE H

\* A plausible slip: the quantity grows by the argument's quantity field.
incrementQuantity_ByInput(H, item) ==
    LET items     == get(H)
        itemIndex == findItemIndex(Deref(H, items), item)
    IN  IF itemIndex > -1
        THEN LET e == H.arrs[items][itemIndex + 1]
             IN  setSpread([H EXCEPT !.objs[e].quantity = @ + item.quantity], items)
        ELSE H

\* A plausible slip: the entry is changed in place and set is never called.
incrementQuantity_NoSet(H, item) ==
    LET items     == get(H)
        itemIndex == findItemIndex(Deref(H, items), item)
    IN  IF itemIndex > -1
        THEN LET e == H.arrs[items][itemIndex + 1]
             IN  [H EXCEPT !.objs[e].quantity = @ + 1]
        ELSE H

\* A plausible slip: the entry is replaced by a changed copy put at the end.
incrementQuantity_MoveToEnd(H, item) ==
    LET items     == get(H)
        itemIndex == findItemIndex(Deref(H, items), item)
    IN  IF itemIndex > -1
        THEN LET e  == H.arrs[items][itemIndex + 1]
                 H1 == [H EXCEPT !.objs[e].quantity = @ + 1,
                                 !.arrs[items] = Append(splice(@, itemIndex), e)]
             IN  setSpread(H1, items)
        ELSE H

\* incrementQuantity: items[itemIndex].quantity++ on the committed entry
\* object itself, then set({ cartItems: [...items] }).
incrementQuantity(H, item) ==
    LET items     == get(H)
        itemIndex == findItemIndex(Deref(H, items), item)
    IN  IF itemIndex > -1
        THEN LET e == H.arrs[items][itemIndex + 1]
             IN  setSpread([H EXCEPT !.objs[e].quantity = @ + 1], items)
        ELSE H

\* A plausible slip: the entry is never removed.
decrementQuantity_NoRemove(H, item) ==
    LET items     == get(H)
        itemIndex == findItemIndex(Deref(H, items), item)
    IN  IF itemIndex > -1
        THEN LET e == H.arrs[items][itemIndex + 1]
             IN  setSpread([H EXCEPT !.objs[e].quantity = @ - 1], items)
        ELSE H

\* A plausible slip: the entry is removed when the quantity reaches 1.
decrementQuantity_RemoveAtOne(H, item) ==
    LET items     == get(H)
        itemIndex == findItemIndex(Deref(H, items), item)
    IN  IF itemIndex > -1
        THEN LET e  == H.arrs[items][itemIndex + 1]
                 H1 == [H EXCEPT !.objs[e].quantity = @ - 1]
                 H2 == IF H1.objs[e].quantity <= 1
                       THEN [H1 EXCEPT !.arrs[items] = splice(@, itemIndex)]
                       ELSE H1
             IN  setSpread(H2, items)
        ELSE H

\* decrementQuantity: items[itemIndex].quantity-- on the committed entry
\* object itself, items.splice(itemIndex, 1) when the quantity is then 0,
\* then set({ cartItems: [...items] }).
decrementQuantity(H, item) ==
    LET items     == get(H)
        itemIndex == findItemIndex(Deref(H, items), item)
    IN  IF itemIndex > -1
        THEN LET e  == H.arrs[items][itemIndex + 1]
                 H1 == [H EXCEPT !.objs[e].quantity = @ - 1]
                 H2 == IF H1.objs[e].quantity = 0
                       THEN [H1 EXCEPT !.arrs[items] = splice(@, itemIndex)]
                       ELSE H1
             IN  setSpread(H2, items)
        ELSE H

\* A plausible slip: only the first entry is looked at.
isInCart_FirstOnly(items, product) ==
    Len(items) > 0 /\ items[1].product.id = product.id

\* isInCart (helpers): some entry has the product's id.
isInCart(items, product) == \E i \in 1..Len(items) : items[i].product.id = product.id

\* A plausible slip: the quantity is left out of the sum.
RECURSIVE getTotalPrice_NoQuantity(_)
getTotalPrice_NoQuantity(items) ==
    IF items = << >> THEN 0
    ELSE getTotalPrice_NoQuantity(SubSeq(items, 1, Len(items) - 1))
             + items[Len(items)].product.price

\* getTotalPrice (helpers): reduce from 0, adding price * quantity entry
\* after entry, first to last.
RECURSIVE getTotalPrice(_)
getTotalPrice(items) ==
    IF items = << >> THEN 0
    ELSE getTotalPrice(SubSeq(items, 1, Len(items) - 1))
             + items[Len(items)].product.price * items[Len(items)].quantity

\* ----------------------------------------------------------- persistence

\* JSON text of a non-negative integer: its decimal digits.
RECURSIVE Digits(_)
Digits(n) ==
    LET d == << "0", "1", "2", "3", "4", "5", "6", "7", "8", "9" >>
    IN  IF n < 10 THEN << d[n + 1] >> ELSE Digits(n \div 10) \o << d[(n % 10) + 1] >>

\* The number a sequence of decimal digits denotes (0 for no digit).
RECURSIVE Number(_)
Number(ds) ==
    LET v(c) == CHOOSE k \in 0..9 : Digits(k) = << c >>
    IN  IF ds = << >> THEN 0
        ELSE 10 * Number(SubSeq(ds, 1, Len(ds) - 1)) + v(ds[Len(ds)])

\* A plausible slip in the options of persist: a partialize that keeps the
\* products and drops the quantities.
stringify_ProductsOnly(cart) ==
    [state |-> [cartItems |-> [i \in 1..Len(cart) |->
                   [product |-> [id |-> Digits(cart[i].product.id),
                                 price |-> Digits(cart[i].product.price)],
                    quantity |-> << >>]]],
     version |-> Digits(0)]

\* What persist writes under "cart-storage": the JSON text of the state,
\* that is { state: { cartItems }, version: 0 }; the four functions of the
\* state are not data and are left out, and every number is written as
\* decimal text.
stringify(cart) ==
    [state |-> [cartItems |-> [i \in 1..Len(cart) |->
                   [product |-> [id |-> Digits(cart[i].product.id),
                                 price |-> Digits(cart[i].product.price)],
                    quantity |-> Digits(cart[i].quantity)]]],
     version |-> Digits(0)]

\* The cart read back from a blob.
parse(blob) ==
    LET c == blob.state.cartItems
    IN  [i \in 1..Len(c) |->
            [product |-> [id |-> Number(c[i].product.id),
                          price |-> Number(c[i].product.price)],
             quantity |-> Number(c[i].quantity)]]

\* The heap of a store just created and rehydrated from the blob: the
\* initial cartItems: [] when there is no blob, the parsed array otherwise.
rehydrated(blob) ==
    LET c == IF blob = NoBlob THEN << >> ELSE parse(blob)
    IN  [objs |-> c, arrs |-> (1 :> [i \in 1..Len(c) |-> i]), cartItems |-> 1]

\* ------------------------------------------------------------- the system

\* The store as created: cartItems: [] and nothing called yet, no consumer.
Init ==
    /\ objs = << >>
    /\ arrs = (1 :> << >>)
    /\ cartItems = 1
    /\ view = NoRef
    /\ seen = << >>
    /\ lastOp = "none"
    /\ lastItem = NoItem
    /\ before = << >>
    /\ replaced = FALSE
    /\ prevCall = NoCall
    /\ pending = 0
    /\ storage = NoBlob

\* The heap once a store operation has returned heap R.
Commit(R) ==
    LET G == Normalize(R, view)
    IN  /\ objs' = G.objs
        /\ arrs' = G.arrs
        /\ cartItems' = G.cartItems
        /\ view' = G.view
        /\ storage' = IF R.cartItems # cartItems THEN stringify(Cart(R)) ELSE storage
        /\ UNCHANGED seen

\* The record of the call: what was called, on what, from which cart.
Record(op, item, R) ==
    /\ lastOp' = op
    /\ lastItem' = item
    /\ before' = Cart(Heap)
    /\ replaced' = (R.cartItems # cartItems)
    /\ prevCall' = IF lastOp \in {"addItem", "incrementQuantity"}
                   THEN [op |-> lastOp, id |-> lastItem.product.id, cart |-> before]
                   ELSE NoCall
    /\ UNCHANGED pending

\* incrementQuantity is explored up to MaxQuantity.
CanIncrement(item) ==
    \A i \in 1..Len(Cart(Heap)) :
        Cart(Heap)[i].product.id = item.product.id => Cart(Heap)[i].quantity < MaxQuantity

AddItem ==
    \E item \in CartItem :
        /\ Len(objs) < 2 * NumProducts
        /\ Commit(addItem(Heap, item))
        /\ Record("addItem", item, addItem(Heap, item))

RemoveItem ==
    \E item \in CartItem :
        /\ Commit(removeItem(Heap, item))
        /\ Record("removeItem", item, removeItem(Heap, item))

IncrementQuantity ==
    \E item \in CartItem :
        /\ CanIncrement(item)
        /\ Commit(incrementQuantity(Heap, item))
        /\ Record("incrementQuantity", item, incrementQuantity(Heap, item))

DecrementQuantity ==
    \E item \in CartItem :
        /\ Commit(decrementQuantity(Heap, item))
        /\ Record("decrementQuantity", item, decrementQuantity(Heap, item))

Next ==
    \/ AddItem
    \/ RemoveItem
    \/ IncrementQuantity
    \/ DecrementQuantity

\* The store under any sequence of calls of its four operations.
Spec == Init /\ [][Next]_vars

\* The page is loaded again: a new store is created and persist rehydrates
\* it from the blob under "cart-storage".  Nothing of the old page is left.
Rehydrate ==
    LET G == rehydrated(storage)
    IN  /\ objs' = G.objs
        /\ arrs' = G.arrs
        /\ cartItems' = G.cartItems
        /\ view' = NoRef
        /\ seen' = << >>
        /\ pending' = 0
        /\ lastOp' = "rehydrate"
        /\ lastItem' = NoItem
        /\ before' = Cart(Heap)
        /\ replaced' = FALSE
        /\ prevCall' = NoCall
        /\ UNCHANGED storage

PersistNext ==
    \/ Next
    \/ Rehydrate

\* The store over several page loads.
PersistSpec == Init /\ [][PersistNext]_vars

\* A consumer renders: useCartStore((state) => state.cartItems) hands it the
\* committed array itself, and it keeps it until it renders again.
Render ==
    LET G == Normalize(Heap, cartItems)
    IN  /\ objs' = G.objs
        /\ arrs' = G.arrs
        /\ cartItems' = G.cartItems
        /\ view' = G.view
        /\ seen' = Cart(Heap)
        /\ UNCHANGED << callVars, pending, storage >>

\* The same four operations, called while a consumer holds a snapshot; the
\* record of the call is not kept.
ConsumerAddItem ==
    \E item \in CartItem :
        /\ Len(objs) < 2 * NumProducts
        /\ Commit(addItem(Heap, item))
        /\ UNCHANGED << callVars, pending >>

ConsumerRemoveItem ==
    \E item \in CartItem :
        /\ Commit(removeItem(Heap, item))
        /\ UNCHANGED << callVars, pending >>

ConsumerIncrementQuantity ==
    \E item \in CartItem :
        /\ CanIncrement(item)
        /\ Commit(incrementQuantity(Heap, item))
        /\ UNCHANGED << callVars, pending >>

ConsumerDecrementQuantity ==
    \E item \in CartItem :
        /\ Commit(decrementQuantity(Heap, item))
        /\ UNCHANGED << callVars, pending >>

ConsumerNext ==
    \/ ConsumerAddItem
    \/ ConsumerRemoveItem
    \/ ConsumerIncrementQuantity
    \/ ConsumerDecrementQuantity
    \/ Render

\* The store with a consumer that renders at any time between two calls.
ConsumerSpec == Init /\ [][ConsumerNext]_vars

\* ------------------------------------------------- a subscribed consumer

\* A component mounts: useCartStore((state) => state.cartItems) subscribes
\* it to the store and hands it the committed array.
Mount ==
    LET G == Normalize(Heap, cartItems)
    IN  /\ view = NoRef
        /\ objs' = G.objs
        /\ arrs' = G.arrs
        /\ cartItems' = G.cartItems
        /\ view' = G.view
        /\ seen' = Cart(Heap)
        /\ pending' = 0
        /\ UNCHANGED << callVars, storage >>

\* set() calls the listeners of the store once per call; an operation that
\* returns without calling set notifies nobody.
Notify(R) ==
    pending' = IF view # NoRef /\ R.cartItems # cartItems THEN pending + 1 ELSE pending

\* The subscriber is explored up to MaxPending commits behind.
CanFallBehind == pending < MaxPending

SubscribedAddItem ==
    \E item \in CartItem :
        /\ CanFallBehind
        /\ Len(objs) < 2 * NumProducts
        /\ Commit(addItem(Heap, item))
        /\ Notify(addItem(Heap, item))
        /\ UNCHANGED callVars

SubscribedRemoveItem ==
    \E item \in CartItem :
        /\ CanFallBehind
        /\ Commit(removeItem(Heap, item))
        /\ Notify(removeItem(Heap, item))
        /\ UNCHANGED callVars

SubscribedIncrementQuantity ==
    \E item \in CartItem :
        /\ CanFallBehind
        /\ CanIncrement(item)
        /\ Commit(incrementQuantity(Heap, item))
        /\ Notify(incrementQuantity(Heap, item))
        /\ UNCHANGED callVars

SubscribedDecrementQuantity ==
    \E item \in CartItem :
        /\ CanFallBehind
        /\ Commit(decrementQuantity(Heap, item))
        /\ Notify(decrementQuantity(Heap, item))
        /\ UNCHANGED callVars

\* The notified component runs its selector again: it renders with the
\* committed array when that is another array than the one it holds
\* (Object.is), and skips the render when it is the same array.
Rerender ==
    LET G == Normalize(Heap, cartItems)
    IN  /\ pending > 0
        /\ pending' = 0
        /\ UNCHANGED << callVars, storage >>
        /\ IF view # cartItems
           THEN /\ objs' = G.objs
                /\ arrs' = G.arrs
                /\ cartItems' = G.cartItems
                /\ view' = G.view
                /\ seen' = Cart(Heap)
           ELSE UNCHANGED << objs, arrs, cartItems, view, seen >>

SubscriberNext ==
    \/ Mount
    \/ SubscribedAddItem
    \/ SubscribedRemoveItem
    \/ SubscribedIncrementQuantity
    \/ SubscribedDecrementQuantity
    \/ Rerender

\* The store with a subscribed component; a notified component is
\* eventually rendered again.
SubscriberSpec == Init /\ [][SubscriberNext]_vars /\ WF_vars(Rerender)

TypeOK ==
    /\ cartItems \in DOMAIN arrs
    /\ view \in DOMAIN arrs \cup {NoRef}
    /\ \A a \in DOMAIN arrs : \A i \in 1..Len(arrs[a]) : arrs[a][i] \in DOMAIN objs
    /\ lastOp \in OpNames \cup {"none", "rehydrate"}

\* ------------------------------------------------------------ properties

\* The committed cart, as consumers of the store read it.
Committed == Cart(Heap)

\* The product id the last call was about.
LastId == lastItem.product.id

Has(cart, id) == \E i \in 1..Len(cart) : cart[i].product.id = id
PosOf(cart, id) == CHOOSE i \in 1..Len(cart) : cart[i].product.id = id
QuantityOf(cart, id) == cart[PosOf(cart, id)].quantity
Drop(cart, k) == [i \in 1..(Len(cart) - 1) |-> IF i < k THEN cart[i] ELSE cart[i + 1]]

\* C1: in every state reachable from the empty cart by the four operations,
\* the cart holds at most one entry per product id.
C1_OneEntryPerProduct ==
    \A i, j \in 1..Len(Committed) :
        Committed[i].product.id = Committed[j].product.id => i = j

\* addItem was called for a product already in a cart of several entries.
C1_Witness ==
    /\ lastOp = "addItem"
    /\ Has(before, LastId)
    /\ Len(Committed) >= 2

\* C2: every entry of a committed cart has quantity >= 1.
C2_QuantityAtLeastOne ==
    \A i \in 1..Len(Committed) : Committed[i].quantity >= 1

\* decrementQuantity was called on an entry of quantity 1, and the cart
\* still has entries.
C2_Witness ==
    /\ lastOp = "decrementQuantity"
    /\ Has(before, LastId)
    /\ QuantityOf(before, LastId) = 1
    /\ Len(Committed) >= 1

\* C3: the array a consumer read keeps the length, entries and quantities
\* it had when it was read, whatever is called on the store afterwards.
C3_SnapshotUnchanged ==
    view # NoRef => Deref(Heap, view) = seen

\* C4: addItem for a product without an entry appends one entry of quantity
\* 1 for it at the end, whatever the argument's quantity, and leaves the
\* other entries as they were.
C4_AddItemAppends ==
    (lastOp = "addItem" /\ ~Has(before, LastId))
        => /\ Committed = Append(before, [product |-> lastItem.product, quantity |-> 1])
           /\ replaced

\* addItem of an absent product was called with a quantity field other
\* than 1 on a cart that had an entry.
C4_Witness ==
    /\ lastOp = "addItem"
    /\ ~Has(before, LastId)
    /\ lastItem.quantity # 1
    /\ Len(before) >= 1

\* C5: addItem for a product that has an entry leaves the cart as it was
\* and commits nothing; called twice in a row for a product that was absent,
\* it leaves exactly one entry for it, of quantity 1.
C5_AddItemIdempotent ==
    /\ (lastOp = "addItem" /\ Has(before, LastId))
           => Committed = before /\ ~replaced
    /\ (lastOp = "addItem" /\ prevCall.op = "addItem" /\ prevCall.id = LastId
            /\ ~Has(prevCall.cart, LastId))
           => /\ Cardinality({ i \in 1..Len(Committed) : Committed[i].product.id = LastId }) = 1
              /\ QuantityOf(Committed, LastId) = 1

\* addItem was called on an entry of quantity above 1.
C5_Witness ==
    /\ lastOp = "addItem"
    /\ Has(before, LastId)
    /\ QuantityOf(before, LastId) > 1

\* C6: decrementQuantity on an entry of quantity above 1 lowers it by 1 and
\* keeps the entry; on an entry of quantity 1 it removes the entry, so that
\* after addItem(P) then decrementQuantity(P) isInCart is false for P.
C6_DecrementEffect ==
    /\ (lastOp = "decrementQuantity" /\ Has(before, LastId))
           => LET k == PosOf(before, LastId)
              IN  IF before[k].quantity > 1
                  THEN Committed = [before EXCEPT ![k].quantity = @ - 1]
                  ELSE /\ Committed = Drop(before, k)
                       /\ ~isInCart(Committed, lastItem.product)
    /\ (lastOp = "decrementQuantity" /\ prevCall.op = "addItem" /\ prevCall.id = LastId
            /\ ~Has(prevCall.cart, LastId))
           => ~isInCart(Committed, lastItem.product)

\* decrementQuantity(P) was called right after the addItem(P) that added P.
C6_Witness ==
    /\ lastOp = "decrementQuantity"
    /\ prevCall.op = "addItem"
    /\ prevCall.id = LastId
    /\ ~Has(prevCall.cart, LastId)
    /\ Len(before) >= 2

\* C7: removeItem on a product that has an entry deletes the entry whatever
\* its quantity: isInCart is false for it afterwards and the cart has one
\* entry fewer.
C7_RemoveEffect ==
    (lastOp = "removeItem" /\ Has(before, LastId))
        => /\ ~isInCart(Committed, lastItem.product)
           /\ Len(Committed) = Len(before) - 1
           /\ Committed = Drop(before, PosOf(before, LastId))

\* removeItem was called on an entry of quantity above 1 that was not the
\* first of the cart.
C7_Witness ==
    /\ lastOp = "removeItem"
    /\ Has(before, LastId)
    /\ QuantityOf(before, LastId) > 1
    /\ PosOf(before, LastId) > 1

\* C8: removeItem, incrementQuantity and decrementQuantity for a product
\* without an entry leave the cart as it was and commit nothing.
C8_AbsentNoOp ==
    (lastOp \in {"removeItem", "incrementQuantity", "decrementQuantity"}
        /\ ~Has(before, LastId))
        => /\ Committed = before
           /\ ~replaced

\* removeItem was called for a product absent from a cart that had entries.
C8_Witness ==
    /\ lastOp = "removeItem"
    /\ ~Has(before, LastId)
    /\ Len(before) >= 1

\* C9: incrementQuantity on an entry raises its quantity by exactly 1,
\* whatever the quantity was.
C9_IncrementEffect ==
    (lastOp = "incrementQuantity" /\ Has(before, LastId))
        => Committed = [before EXCEPT ![PosOf(before, LastId)].quantity = @ + 1]

\* incrementQuantity took an entry to the largest quantity explored.
C9_Witness ==
    /\ lastOp = "incrementQuantity"
    /\ Has(before, LastId)
    /\ QuantityOf(before, LastId) = MaxQuantity - 1
    /\ lastItem.quantity # 1

\* C10: incrementQuantity(P) then decrementQuantity(P), P having an entry,
\* gives back the cart as it was before the increment.
C10_IncrementThenDecrement ==
    (lastOp = "decrementQuantity" /\ prevCall.op = "incrementQuantity"
        /\ prevCall.id = LastId /\ Has(prevCall.cart, LastId))
        => Committed = prevCall.cart

\* The pair was called on an entry of quantity above 1 in a cart of several
\* entries.
C10_Witness ==
    /\ lastOp = "decrementQuantity"
    /\ prevCall.op = "incrementQuantity"
    /\ prevCall.id = LastId
    /\ Has(prevCall.cart, LastId)
    /\ QuantityOf(prevCall.cart, LastId) > 1
    /\ Len(prevCall.cart) >= 2

\* C11: a subscribed consumer whose rendered cart is not the committed one
\* has been notified and holds another array than the committed one, so its
\* pending render is not skipped; and it eventually shows the committed cart.
C11_StaleSubscriberNotified ==
    (view # NoRef /\ seen # Committed) => (pending > 0 /\ view # cartItems)

C11_EventuallySeesCommitted ==
    (view # NoRef /\ seen # Committed) ~> (seen = Committed)

\* The subscriber is several commits behind: the intermediate carts will
\* never be rendered.
C11_Witness ==
    /\ view # NoRef
    /\ pending = MaxPending
    /\ seen # Committed

\* C12: once something has been written, the blob under "cart-storage"
\* holds the committed cart: same product ids, order and quantities; and an
\* operation that committed a change has written the cart it committed.
C12_StorageHoldsCart ==
    /\ storage # NoBlob => parse(storage) = Committed
    /\ (lastOp \in OpNames /\ replaced) => storage = stringify(Committed)
    /\ (storage = NoBlob) => Committed = << >>

\* An operation has just changed a cart of several entries that had been
\* written before.
C12_Witness ==
    /\ lastOp = "decrementQuantity"
    /\ replaced
    /\ Len(before) >= 2
    /\ Len(Committed) < Len(before)
    /\ storage # NoBlob

\* C13: a store rehydrated from the blob the previous page wrote holds the
\* cart of the previous page: same product ids, same order, same quantities.
C13_RoundTrip ==
    /\ lastOp = "rehydrate" => Committed = before
    /\ parse(stringify(Committed)) = Committed

\* A cart of several entries, one of quantity above 1, has been rehydrated.
C13_Witness ==
    /\ lastOp = "rehydrate"
    /\ Len(Committed) >= 2
    /\ \E i \in 1..Len(Committed) : Committed[i].quantity > 1
    /\ \E i \in 1..Len(Committed) : Committed[i].product.price >= 10

\* C16: isInCart is false for every product on the empty cart, true for a
\* product once addItem was called for it, and stays so until removeItem or
\* a decrementQuantity at quantity 1 is called for it; calls for other
\* products do not change it.
C16_IsInCart ==
    \A p \in products :
        /\ Committed = << >> => ~isInCart(Committed, p)
        /\ lastOp = "none" => ~isInCart(Committed, p)
        /\ lastOp \in OpNames =>
               isInCart(Committed, p) =
                   IF LastId # p.id THEN isInCart(before, p)
                   ELSE CASE lastOp = "addItem" -> TRUE
                          [] lastOp = "removeItem" -> FALSE
                          [] lastOp = "incrementQuantity" -> isInCart(before, p)
                          [] lastOp = "decrementQuantity" ->
                                 isInCart(before, p) /\ QuantityOf(before, p.id) > 1

\* A decrementQuantity took the first of two products out of the cart: it is
\* no longer in the cart and the other one is.
C16_Witness ==
    /\ lastOp = "decrementQuantity"
    /\ Len(before) >= 2
    /\ PosOf(before, LastId) = 1
    /\ ~isInCart(Committed, lastItem.product)
    /\ \E p \in products : isInCart(Committed, p)

\* The sum of price * quantity, product by product.
RECURSIVE SumByProduct(_, _)
SumByProduct(cart, ids) ==
    IF ids = {} THEN 0
    ELSE LET id == CHOOSE x \in ids : TRUE
             own == { i \in 1..Len(cart) : cart[i].product.id = id }
             part == IF own = {} THEN 0
                     ELSE LET i == CHOOSE k \in own : TRUE
                          IN  cart[i].product.price * cart[i].quantity
         IN  part + SumByProduct(cart, ids \ {id})

\* C17: getTotalPrice is the sum of price * quantity over the entries: 0 for
\* the empty cart and 25 for entries (price 10, quantity 2), (price 5,
\* quantity 1).
C17_TotalPrice ==
    /\ getTotalPrice(Committed) = SumByProduct(Committed, ProductIds)
    /\ Committed = << >> => getTotalPrice(Committed) = 0
    /\ (/\ Len(Committed) = 2
        /\ Committed[1].product.price = 10 /\ Committed[1].quantity = 2
        /\ Committed[2].product.price = 5 /\ Committed[2].quantity = 1)
           => getTotalPrice(Committed) = 25

\* The cart holds (price 10, quantity 2) then (price 5, quantity 1).
C17_Witness ==
    /\ Len(Committed) = 2
    /\ Committed[1].product.price = 10 /\ Committed[1].quantity = 2
    /\ Committed[2].product.price = 5 /\ Committed[2].quantity = 1

\* The entries of the other products, in order.
Others(cart, id) ==
    LET other(entry) == entry.product.id # id
    IN  SelectSeq(cart, other)

\* C18: an operation on product P leaves the entries of the other products
\* and their order as they were; addItem puts P last, incrementQuantity and
\* a decrementQuantity above quantity 1 keep P where it was, removeItem and a
\* decrementQuantity at quantity 1 take out P only.
C18_FrameAndOrder ==
    lastOp \in OpNames =>
        /\ Others(Committed, LastId) = Others(before, LastId)
        /\ (lastOp = "addItem" /\ ~Has(before, LastId))
               => PosOf(Committed, LastId) = Len(before) + 1
        /\ (Has(before, LastId) /\ Has(Committed, LastId))
               => PosOf(Committed, LastId) = PosOf(before, LastId)
        /\ (Has(before, LastId) /\ ~Has(Committed, LastId))
               => Committed = Others(before, LastId)
        /\ (~Has(before, LastId) /\ lastOp # "addItem")
               => Committed = before

\* An incrementQuantity was called on the first of several entries.
C18_Witness ==
    /\ lastOp = "incrementQuantity"
    /\ Has(before, LastId)
    /\ PosOf(before, LastId) = 1
    /\ Len(before) >= 2

\* A heap that holds the cart and nothing else.
HeapOf(cart) ==
    [objs |-> cart, arrs |-> (1 :> [i \in 1..Len(cart) |-> i]), cartItems |-> 1]

\* The operation of that name.
Apply(op, H, item) ==
    CASE op = "addItem" -> addItem(H, item)
      [] op = "removeItem" -> removeItem(H, item)
      [] op = "incrementQuantity" -> incrementQuantity(H, item)
      [] op = "decrementQuantity" -> decrementQuantity(H, item)

\* C19: the call just made, made on the same cart with any other quantity
\* field in its argument, leads to the same cart.
C19_QuantityFieldIgnored ==
    lastOp \in OpNames =>
        \A q \in InputQuantities :
            Cart(Apply(lastOp, HeapOf(before), [lastItem EXCEPT !.quantity = q])) = Committed

\* An operation was called on an entry with a quantity field that is not the
\* entry's quantity.
C19_Witness ==
    /\ lastOp \in {"removeItem", "incrementQuantity", "decrementQuantity"}
    /\ Has(before, LastId)
    /\ lastItem.quantity # QuantityOf(before, LastId)
    /\ Len(before) >= 2

====
